---- MODULE Spec2Model ----
(***************************************************************************)
(* State-machine model of the dev-camper REST API: the bootcamp, course    *)
(* and review collections with the request handlers that write them, and   *)
(* the password-reset flow of the auth controller.                         *)
(*                                                                         *)
(* Node runs one handler at a time and switches between requests only at   *)
(* an await, so every action below is one database round trip of one       *)
(* request together with the synchronous code that follows it up to the    *)
(* next await.  Requests in flight occupy a slot of `req`.                 *)
(***************************************************************************)
EXTENDS Integers, Sequences, FiniteSets, TLC

\* ------------------------------------------------------------------ bounds
MaxReq == 2          \* requests in flight at the same time
MaxBootcamps == 2    \* bootcamp ids ever allocated
MaxCourses == 2      \* course ids ever allocated
MaxReviews == 2      \* review ids ever allocated
MaxUsers == 2        \* user ids ever allocated
MaxTokens == 1       \* reset tokens ever drawn
MaxTime == 15        \* last reading of the clock, in minutes

Slots == 1..MaxReq
BootcampIds == 1..MaxBootcamps
CourseIds == 1..MaxCourses
ReviewIds == 1..MaxReviews

\* ------------------------------------------------------- request inputs
\* Authenticated requesters (req.user as loaded by the protect guard).
Requesters == {"u1", "adm"}
Role(u) == IF u = "adm" THEN "admin" ELSE "publisher"

Names == {"Devworks", "Code Masters"}
Tuitions == {100, 200}
Ratings == {2, 5}

VARIABLES
  bootcamps,   \* Bootcamp collection: id -> [user, name, averageCost, averageRating]
  courses,     \* Course collection:   id -> [bootcamp, tuition]
  reviews,     \* Review collection:   id -> [bootcamp, user, rating]
  nB, nC, nR,  \* ObjectIds handed out so far per collection (ids are never reused)
  req,         \* request slots: position of each handler and its local variables
  last,        \* the response sent by the step just taken (NoResp when it sent none)
  users,       \* User collection: id -> [email, password, resetPasswordToken,
               \*                         resetPasswordExpire]
  nU,          \* user ids handed out so far
  nT,          \* reset tokens drawn so far (every draw of randomBytes is a new token)
  now,         \* the server's clock, in minutes
  spent,       \* history: the tokens with which a resetPassword request has succeeded
  pwSet        \* history: user id -> the plaintext password most recently stored for it

storeVars == <<bootcamps, courses, reviews, nB, nC, nR>>
authVars == <<users, nU, nT, now, spent, pwSet>>
vars == <<bootcamps, courses, reviews, nB, nC, nR, req, last, users, nU, nT, now, spent,
         pwSet>>

\* --------------------------------------------------------------- numbers
\* $avg yields a double; averages are kept as reduced fractions so that
\* equality of two averages is exact.
RECURSIVE Gcd(_, _)
Gcd(a, b) == IF b = 0 THEN a ELSE Gcd(b, a % b)

\* A Number field of a document: absent (def = FALSE) or num/den.
Absent == [def |-> FALSE, num |-> 0, den |-> 1]
Num(n) == [def |-> TRUE, num |-> n, den |-> 1]
Frac(s, c) == LET g == Gcd(s, c) IN [def |-> TRUE, num |-> s \div g, den |-> c \div g]

RECURSIVE SumOf(_, _)
SumOf(f, S) == IF S = {} THEN 0
               ELSE LET x == CHOOSE y \in S : TRUE IN f[x] + SumOf(f, S \ {x})

\* ------------------------------------------------------------- requests
Idle == [pc |-> "idle", user |-> "none", id |-> 0, val |-> 0, key |-> "none",
         obj |-> <<>>, solo |-> TRUE]
NoResp == [op |-> "none", status |-> 0, id |-> 0, solo |-> TRUE]

Resp(op, status, s) == [op |-> op, status |-> status, id |-> req[s].id,
                        solo |-> req[s].solo]

\* Requests are anonymous: a new request takes the lowest free slot.
Free(s) == req[s].pc = "idle" /\ \A t \in Slots : t < s => req[t].pc # "idle"

\* A step of slot s: s moves to record r; every other request in flight has
\* now seen a foreign step between two of its own (solo = FALSE).
Step(s, r) == req' = [t \in Slots |->
                 IF t = s THEN r
                 ELSE IF req[t].pc = "idle" THEN req[t]
                 ELSE [req[t] EXCEPT !.solo = FALSE]]

AllIdle == \A s \in Slots : req[s].pc = "idle"

Init ==
  /\ bootcamps = <<>>
  /\ courses = <<>>
  /\ reviews = <<>>
  /\ nB = 0 /\ nC = 0 /\ nR = 0
  /\ req = [s \in Slots |-> Idle]
  /\ last = NoResp
  /\ users = <<>>
  /\ nU = 0 /\ nT = 0
  /\ now = 0
  /\ spent = {}
  /\ pwSet = <<>>

\* ------------------------------------------------------ update casting
\* An update document handed to findByIdAndUpdate: val holds the value
\* written for every key, undef the keys whose value is `undefined`.
\* Mongoose (6 and later; the code uses HydratedDocument) removes keys
\* whose value is undefined while casting the update, so such a key is
\* not written at all.
CastUpdate(upd) == [k \in (DOMAIN upd.val) \ upd.undef |-> upd.val[k]]

\* $set of the cast update on one document.
ApplyUpdate(doc, upd) ==
  LET u == CastUpdate(upd)
  IN [k \in DOMAIN doc |-> IF k \in DOMAIN u THEN u[k] ELSE doc[k]]

\* Model.findByIdAndUpdate: no document with that id, nothing happens.
FindByIdAndUpdate(coll, id, upd) ==
  IF id \in DOMAIN coll THEN [coll EXCEPT ![id] = ApplyUpdate(coll[id], upd)]
  ELSE coll

SetTo(f) == [val |-> f, undef |-> {}]
SetUndefined(f) == [val |-> f, undef |-> DOMAIN f]

Remove(coll, ids) == [k \in (DOMAIN coll) \ ids |-> coll[k]]
Pending(pcs) == Cardinality({s \in Slots : req[s].pc \in pcs})

\* ------------------------------------------------------------ bootcamps
OwnedBy(u) == {b \in DOMAIN bootcamps : bootcamps[b].user = u}

\* addBootcamp up to its second await: the lookup of the requester's
\* bootcamps (limit 0, so every match is returned) and the one-per-user test.
AddBootcampCheck(s, u, n) ==
  /\ Free(s)
  /\ nB + Pending({"ab_save"}) < MaxBootcamps
  /\ IF OwnedBy(u) # {} /\ Role(u) # "admin"
     THEN /\ Step(s, Idle)
          /\ last' = Resp("addBootcamp", 400, s)
     ELSE /\ Step(s, [Idle EXCEPT !.pc = "ab_save", !.user = u, !.key = n])
          /\ last' = NoResp
  /\ UNCHANGED <<bootcamps, courses, reviews, nB, nC, nR, authVars>>

\* slugify(name, {lower: true, trim: true}): lower case, blanks to dashes.
slugify(n) ==
  CASE n = "Devworks" -> "devworks"
    [] n = "Code Masters" -> "code-masters"
    [] OTHER -> n

\* bootcampService.createBootcamp: bootcamp.save() under the unique index
\* on name; pre(save) sets the slug from the name.  The averages are not
\* part of the created document.
AddBootcampSave(s) ==
  /\ req[s].pc = "ab_save"
  /\ IF \E b \in DOMAIN bootcamps : bootcamps[b].name = req[s].key
     THEN /\ last' = Resp("addBootcamp", 409, s)
          /\ UNCHANGED <<bootcamps, nB>>
     ELSE /\ nB' = nB + 1
          /\ bootcamps' = (nB + 1 :> [user |-> req[s].user, name |-> req[s].key,
                                      slug |-> slugify(req[s].key),
                                      averageCost |-> Absent,
                                      averageRating |-> Absent]) @@ bootcamps
          /\ last' = [Resp("addBootcamp", 201, s) EXCEPT !.id = nB + 1]
  /\ Step(s, Idle)
  /\ UNCHANGED <<courses, reviews, nC, nR, authVars>>

\* CAREER_VALUES (two of them) and the careers a body may name.
Careers == {"Web Development", "Business"}
BodyCareers == Careers \cup {"Underwater Basket Weaving"}
isCareer(c) == c \in Careers

\* addBootcamp at new CreateBootcampDTO(req.body) with a career c outside
\* CAREER_VALUES: the constructor throws a plain Error, which the handler
\* does not catch; the error handler answers with err.statusCode || 500 and
\* the message of the error.  createBootcamp is not reached.
AddBootcampInvalid(s, c) ==
  /\ req[s].pc = "ab_save"
  /\ ~isCareer(c)
  /\ Step(s, Idle)
  /\ last' = [op |-> "addBootcamp", status |-> 500, id |-> req[s].id,
               solo |-> req[s].solo,
               info |-> [career |-> c, before |-> bootcamps],
               body |-> [success |-> FALSE, error |-> <<"Invalid career", c>>]]
  /\ UNCHANGED <<storeVars, authVars>>

\* `bootcampToBeUpdated.user !== req.user.id` compares the stored ObjectId
\* with the string id of the requester: operands of different types are
\* never strictly equal, whoever owns the bootcamp.
UserDiffers(b, u) == TRUE

\* updateBootcamp up to the update: getBootcampById and the owner test.
UpdateBootcampCheck(s, u, b) ==
  /\ Free(s)
  /\ IF b \notin DOMAIN bootcamps
     THEN /\ Step(s, Idle)
          /\ last' = [Resp("updateBootcamp", 404, s) EXCEPT !.id = b]
     ELSE IF UserDiffers(b, u) /\ Role(u) # "admin"
     THEN /\ Step(s, Idle)
          /\ last' = [op |-> "updateBootcamp", status |-> 401, id |-> b,
                       solo |-> TRUE, user |-> u]
     ELSE /\ Step(s, [Idle EXCEPT !.pc = "ub_write", !.user = u, !.id = b])
          /\ last' = NoResp
  /\ UNCHANGED <<bootcamps, courses, reviews, nB, nC, nR, authVars>>

\* Request bodies of updateBootcamp: the body goes to the store as it is.
BootcampBodies ==
  {[name |-> n] : n \in Names}
    \cup {[averageCost |-> Num(50)]}
    \cup {[averageRating |-> Num(r)] : r \in {9, 11}}

\* Schema validators run on the update (runValidators): averageRating 1..10.
BootcampBodyValid(body) ==
  "averageRating" \in DOMAIN body =>
     (body.averageRating.num >= body.averageRating.den
        /\ body.averageRating.num <= 10 * body.averageRating.den)

\* bootcampService.updateBootcampById: findByIdAndUpdate(id, body).
UpdateBootcampWrite(s, body) ==
  /\ req[s].pc = "ub_write"
  /\ LET b == req[s].id IN
     IF ~BootcampBodyValid(body)
     THEN /\ last' = Resp("updateBootcamp", 500, s)
          /\ UNCHANGED bootcamps
     ELSE IF b \notin DOMAIN bootcamps
     THEN /\ last' = Resp("updateBootcamp", 404, s)
          /\ UNCHANGED bootcamps
     ELSE IF "name" \in DOMAIN body
             /\ \E o \in DOMAIN bootcamps : o # b /\ bootcamps[o].name = body.name
     THEN /\ last' = Resp("updateBootcamp", 409, s)
          /\ UNCHANGED bootcamps
     ELSE /\ bootcamps' = FindByIdAndUpdate(bootcamps, b, SetTo(body))
          /\ last' = Resp("updateBootcamp", 200, s)
  /\ Step(s, Idle)
  /\ UNCHANGED <<courses, reviews, nB, nC, nR, authVars>>

\* deleteBootcamp: the service call is not awaited, so `deleted` is a
\* pending promise (truthy) and 204 is sent at once; the deletion goes on
\* in the background of the same slot.
DeleteBootcampRespond(s, b) ==
  /\ Free(s)
  /\ Step(s, [Idle EXCEPT !.pc = "db_find", !.id = b])
  /\ last' = [Resp("deleteBootcamp", 204, s) EXCEPT !.id = b]
  /\ UNCHANGED <<bootcamps, courses, reviews, nB, nC, nR, authVars>>

\* pre(findOneAndDelete): findOne(filter).select("_id").
DeleteBootcampFind(s) ==
  /\ req[s].pc = "db_find"
  /\ Step(s, IF req[s].id \in DOMAIN bootcamps
              THEN [req[s] EXCEPT !.pc = "db_cascade", !.val = 1]
              ELSE [req[s] EXCEPT !.pc = "db_remove"])
  /\ last' = NoResp
  /\ UNCHANGED <<bootcamps, courses, reviews, nB, nC, nR, authVars>>

\* pre(findOneAndDelete): Course.deleteMany({bootcamp: _id}).
DeleteBootcampCascade(s) ==
  /\ req[s].pc = "db_cascade"
  /\ courses' = Remove(courses, {c \in DOMAIN courses : courses[c].bootcamp = req[s].id})
  /\ Step(s, [req[s] EXCEPT !.pc = "db_remove"])
  /\ last' = NoResp
  /\ UNCHANGED <<bootcamps, reviews, nB, nC, nR, authVars>>

\* The findOneAndDelete itself; ends the deletion.  The status of this
\* internal completion is 1 when the pre hook had found the bootcamp.
DeleteBootcampRemove(s) ==
  /\ req[s].pc = "db_remove"
  /\ bootcamps' = Remove(bootcamps, {req[s].id})
  /\ last' = Resp("bootcampDeleted", req[s].val, s)
  /\ Step(s, Idle)
  /\ UNCHANGED <<courses, reviews, nB, nC, nR, authVars>>

\* -------------------------------------------------------------- courses
CoursesOf(cs, b) == {c \in DOMAIN cs : cs[c].bootcamp = b}

\* The aggregation of getAverageCost: $match by bootcamp, $group with $avg.
\* No matching course, empty result array.
AggregateCost(cs, b) ==
  LET ids == CoursesOf(cs, b)
  IN IF ids = {} THEN <<>>
     ELSE <<Frac(SumOf([c \in ids |-> cs[c].tuition], ids), Cardinality(ids))>>

\* The update document getAverageCost sends for an aggregation result.
AverageCostUpdate(obj) ==
  IF Len(obj) = 0 THEN SetUndefined([averageCost |-> Absent])
  ELSE SetTo([averageCost |-> obj[1]])

\* addCourse up to the save: getBootcampById.
AddCourseCheck(s, b) ==
  /\ Free(s)
  /\ nC + Pending({"ac_save"}) < MaxCourses
  /\ IF b \notin DOMAIN bootcamps
     THEN /\ Step(s, Idle)
          /\ last' = [Resp("addCourse", 404, s) EXCEPT !.id = b]
     ELSE /\ Step(s, [Idle EXCEPT !.pc = "ac_save", !.id = b])
          /\ last' = NoResp
  /\ UNCHANGED <<bootcamps, courses, reviews, nB, nC, nR, authVars>>

\* courseService.createCourse: course.save(); post(save) then starts
\* getAverageCost for the course's bootcamp.
AddCourseSave(s, t) ==
  /\ req[s].pc = "ac_save"
  /\ nC' = nC + 1
  /\ courses' = (nC + 1 :> [bootcamp |-> req[s].id, tuition |-> t]) @@ courses
  /\ Step(s, [req[s] EXCEPT !.pc = "cost_agg", !.key = "addCourse"])
  /\ last' = NoResp
  /\ UNCHANGED <<bootcamps, reviews, nB, nR, authVars>>

\* deleteCourse: findByIdAndDelete; post(findOneAndDelete) then starts
\* getAverageCost for the bootcamp of the deleted course.
DeleteCourse(s, c) ==
  /\ Free(s)
  /\ IF c \notin DOMAIN courses
     THEN /\ Step(s, Idle)
          /\ last' = [Resp("deleteCourse", 404, s) EXCEPT !.id = c]
          /\ UNCHANGED courses
     ELSE /\ courses' = Remove(courses, {c})
          /\ Step(s, [Idle EXCEPT !.pc = "cost_agg", !.id = courses[c].bootcamp,
                                  !.key = "deleteCourse"])
          /\ last' = NoResp
  /\ UNCHANGED <<bootcamps, reviews, nB, nC, nR, authVars>>

\* getAverageCost, first await: the aggregation over the course collection.
CostAggregate(s) ==
  /\ req[s].pc = "cost_agg"
  /\ Step(s, [req[s] EXCEPT !.pc = "cost_upd", !.obj = AggregateCost(courses, req[s].id)])
  /\ last' = NoResp
  /\ UNCHANGED <<bootcamps, courses, reviews, nB, nC, nR, authVars>>

\* getAverageCost, second await: Bootcamp.findByIdAndUpdate with the
\* result; the handler then answers 201 (addCourse) or 204 (deleteCourse).
CostUpdate(s) ==
  /\ req[s].pc = "cost_upd"
  /\ bootcamps' = FindByIdAndUpdate(bootcamps, req[s].id, AverageCostUpdate(req[s].obj))
  /\ last' = Resp(req[s].key, IF req[s].key = "addCourse" THEN 201 ELSE 204, s)
  /\ Step(s, Idle)
  /\ UNCHANGED <<courses, reviews, nB, nC, nR, authVars>>

\* getAverageCost when the aggregation rejects: the await stands before
\* the try block, so getAverageCost rejects, the post hook rejects and with
\* it the save or delete the handler awaits; the error handler answers 500.
\* The child write is already committed.
CostAggregateFails(s) ==
  /\ req[s].pc = "cost_agg"
  /\ last' = [op |-> req[s].key, status |-> 500, id |-> req[s].id,
              solo |-> req[s].solo, failed |-> "aggregate"]
  /\ Step(s, Idle)
  /\ UNCHANGED <<bootcamps, courses, reviews, nB, nC, nR, authVars>>

\* getAverageCost when Bootcamp.findByIdAndUpdate rejects: caught and
\* logged inside the try block; the handler answers as after a success.
CostUpdateFails(s) ==
  /\ req[s].pc = "cost_upd"
  /\ last' = [op |-> req[s].key,
              status |-> IF req[s].key = "addCourse" THEN 201 ELSE 204,
              id |-> req[s].id, solo |-> req[s].solo, failed |-> "update"]
  /\ Step(s, Idle)
  /\ UNCHANGED <<bootcamps, courses, reviews, nB, nC, nR, authVars>>

\* updateCourse: courseService.updateCourseById, one findByIdAndUpdate.
UpdateCourse(s, c, t) ==
  /\ Free(s)
  /\ IF c \notin DOMAIN courses
     THEN last' = [Resp("updateCourse", 404, s) EXCEPT !.id = c]
     ELSE last' = [Resp("updateCourse", 200, s) EXCEPT !.id = courses[c].bootcamp]
  /\ courses' = FindByIdAndUpdate(courses, c, SetTo([tuition |-> t]))
  /\ Step(s, Idle)
  /\ UNCHANGED <<bootcamps, reviews, nB, nC, nR, authVars>>

\* PATCH /courses/:id as routed: protect puts the requester u on the
\* request, updateCourse never reads it and goes straight to
\* courseService.updateCourseById.
UpdateCourseAs(s, u, c, t) ==
  /\ Free(s)
  /\ courses' = FindByIdAndUpdate(courses, c, SetTo([tuition |-> t]))
  /\ last' = [op |-> "updateCourse",
              status |-> IF c \in DOMAIN courses THEN 200 ELSE 404,
              id |-> c, solo |-> TRUE, user |-> u, before |-> courses]
  /\ Step(s, Idle)
  /\ UNCHANGED <<bootcamps, reviews, nB, nC, nR, authVars>>

\* -------------------------------------------------------------- reviews
ReviewsOf(rs, b) == {r \in DOMAIN rs : rs[r].bootcamp = b}

\* A review schema without the compound index: nothing ever collides.
NoReviewIndex(rs, r, d) == FALSE

\* The unique compound index {bootcamp: 1, user: 1} of the review
\* collection: would document d, stored under id r, collide with another one.
ReviewIndexCollision(rs, r, d) ==
  \E o \in DOMAIN rs : o # r /\ rs[o].bootcamp = d.bootcamp /\ rs[o].user = d.user

\* The aggregation of getAverageRating: $match by bootcamp, $group with $avg.
AggregateRating(rs, b) ==
  LET ids == ReviewsOf(rs, b)
  IN IF ids = {} THEN <<>>
     ELSE <<Frac(SumOf([r \in ids |-> rs[r].rating], ids), Cardinality(ids))>>

\* The update document getAverageRating sends for an aggregation result.
AverageRatingUpdate(obj) ==
  IF Len(obj) = 0 THEN SetUndefined([averageRating |-> Absent])
  ELSE SetTo([averageRating |-> obj[1]])

\* addReview up to the save: getBootcampById.
AddReviewCheck(s, u, b) ==
  /\ Free(s)
  /\ nR + Pending({"ar_save"}) < MaxReviews
  /\ IF b \notin DOMAIN bootcamps
     THEN /\ Step(s, Idle)
          /\ last' = [Resp("addReview", 404, s) EXCEPT !.id = b]
     ELSE /\ Step(s, [Idle EXCEPT !.pc = "ar_save", !.user = u, !.id = b])
          /\ last' = NoResp
  /\ UNCHANGED <<bootcamps, courses, reviews, nB, nC, nR, authVars>>

\* reviewService.createReview: review.save() under the unique index; a
\* duplicate key error reaches the error handler (409).  post(save) then
\* starts getAverageRating for the review's bootcamp.
AddReviewSave(s, r) ==
  /\ req[s].pc = "ar_save"
  /\ LET d == [bootcamp |-> req[s].id, user |-> req[s].user, rating |-> r] IN
     IF ReviewIndexCollision(reviews, 0, d)
     THEN /\ last' = Resp("addReview", 409, s)
          /\ Step(s, Idle)
          /\ UNCHANGED <<reviews, nR>>
     ELSE /\ nR' = nR + 1
          /\ reviews' = (nR + 1 :> d) @@ reviews
          /\ Step(s, [req[s] EXCEPT !.pc = "rate_agg", !.key = "addReview"])
          /\ last' = NoResp
  /\ UNCHANGED <<bootcamps, courses, nB, nC, authVars>>

\* reviewService.deleteReviewById: findByIdAndDelete; post(findOneAndDelete)
\* then starts getAverageRating for the bootcamp of the deleted review.
DeleteReview(s, r) ==
  /\ Free(s)
  /\ IF r \notin DOMAIN reviews
     THEN /\ Step(s, Idle)
          /\ last' = [Resp("deleteReview", 404, s) EXCEPT !.id = r]
          /\ UNCHANGED reviews
     ELSE /\ reviews' = Remove(reviews, {r})
          /\ Step(s, [Idle EXCEPT !.pc = "rate_agg", !.id = reviews[r].bootcamp,
                                  !.key = "deleteReview"])
          /\ last' = NoResp
  /\ UNCHANGED <<bootcamps, courses, nB, nC, nR, authVars>>

\* getAverageRating, first await: the aggregation over the review collection.
RatingAggregate(s) ==
  /\ req[s].pc = "rate_agg"
  /\ Step(s, [req[s] EXCEPT !.pc = "rate_upd", !.obj = AggregateRating(reviews, req[s].id)])
  /\ last' = NoResp
  /\ UNCHANGED <<bootcamps, courses, reviews, nB, nC, nR, authVars>>

\* getAverageRating, second await: Bootcamp.findByIdAndUpdate with the result.
RatingUpdate(s) ==
  /\ req[s].pc = "rate_upd"
  /\ bootcamps' = FindByIdAndUpdate(bootcamps, req[s].id, AverageRatingUpdate(req[s].obj))
  /\ last' = Resp(req[s].key, IF req[s].key = "addReview" THEN 201 ELSE 204, s)
  /\ Step(s, Idle)
  /\ UNCHANGED <<courses, reviews, nB, nC, nR, authVars>>

\* updateReview up to the update: getReviewById and the author-or-admin test.
UpdateReviewCheck(s, u, r) ==
  /\ Free(s)
  /\ IF r \notin DOMAIN reviews
     THEN /\ Step(s, Idle)
          /\ last' = [Resp("updateReview", 404, s) EXCEPT !.id = r]
     ELSE IF reviews[r].user # u /\ Role(u) # "admin"
     THEN /\ Step(s, Idle)
          /\ last' = [op |-> "updateReview", status |-> 400, id |-> r,
                       solo |-> TRUE, user |-> u]
     ELSE /\ Step(s, [Idle EXCEPT !.pc = "ur_write", !.user = u, !.id = r])
          /\ last' = NoResp
  /\ UNCHANGED <<bootcamps, courses, reviews, nB, nC, nR, authVars>>

\* The update documents UpdateReviewDTO can produce from a body to which
\* the handler has added user = req.user.id: the rating, with or without
\* the user key.
UpdateReviewDTO(u, R) ==
  {[rating |-> r] : r \in R} \cup {[rating |-> r, user |-> u] : r \in R}

\* reviewService.updateReviewById: findByIdAndUpdate(id, dto) under the
\* unique index.
UpdateReviewWrite(s, dto) ==
  /\ req[s].pc = "ur_write"
  /\ LET r == req[s].id IN
     IF r \notin DOMAIN reviews
     THEN /\ last' = Resp("updateReview", 404, s)
          /\ UNCHANGED reviews
     ELSE IF ReviewIndexCollision(reviews, r, ApplyUpdate(reviews[r], SetTo(dto)))
     THEN /\ last' = Resp("updateReview", 409, s)
          /\ UNCHANGED reviews
     ELSE /\ reviews' = FindByIdAndUpdate(reviews, r, SetTo(dto))
          /\ last' = Resp("updateReview", 200, s)
  /\ Step(s, Idle)
  /\ UNCHANGED <<bootcamps, courses, nB, nC, nR, authVars>>

\* ------------------------------------------------------- password reset
UserIds == 1..MaxUsers
Emails == {"ann@dev.io", "bob@dev.io"}
Passwords == {"pw1", "pw2"}

\* getResetPasswordToken: Date.now() + 10 * 60 * 1000, in minutes.
ResetTokenTTL == 10

\* An absent String field of a document.
NoString == <<>>

\* crypto.createHash("sha256").update(t).digest("hex"): distinct tokens have
\* distinct digests, and a digest is no token.
Sha256(t) == <<"sha256", t>>

\* A plaintext password as a value that can be hashed.
Plain(p) == <<p>>

\* bcrypt.hash(x, salt): one more layer around x, so the hash of a hash is
\* no hash of the plaintext.  The salt is left out: two hashes of one
\* password are equal here.
Bcrypt(x) == <<"bcrypt">> \o x

\* jwt.sign({ id }, JWT_SECRET, { expiresIn }): the signature is good and
\* the token has not expired when it is issued.
Jwt(u) == [sig |-> "good", id |-> u, expired |-> FALSE]

\* The response of an auth handler with its JSON body.
Answer(op, status, body, r) ==
  [op |-> op, status |-> status, id |-> r.id, solo |-> r.solo,
   token |-> r.val, info |-> r.obj, body |-> body]

\* The response of an auth handler whose locals are the slot record r.
Reply(op, status, r) ==
  [op |-> op, status |-> status, id |-> r.id, solo |-> r.solo,
   token |-> r.val, info |-> r.obj]

\* The fields of a user document that hold no value.
UnsetFields(doc) ==
  {k \in {"resetPasswordToken"} \cap DOMAIN doc : doc[k] = NoString}
    \cup {k \in {"resetPasswordExpire"} \cap DOMAIN doc : doc[k] = Absent}

\* res.json(doc): every field the document in memory holds.
ToJSON(doc) == [k \in (DOMAIN doc) \ UnsetFields(doc) |-> doc[k]]

\* A document as a query returns it: password is `select: false`.
Selected(doc) == [k \in (DOMAIN doc) \ {"password"} |-> doc[k]]

\* `new User({ name, email, role, password })` as user.save() stores it:
\* the pre-save hook has hashed the password, the reset fields hold nothing.
NewUser(id, e, r, p) ==
  [_id |-> id, email |-> e, role |-> r, password |-> Bcrypt(Plain(p)),
   resetPasswordToken |-> NoString, resetPasswordExpire |-> Absent]

\* register -> userService.createUser: user.save() under the unique index
\* on email; the pre-save hook stores the hash of the password.  The
\* answer carries the saved document, the one built by `new User(...)`.
\* The body names no role, so the role is the schema's default.
Register(s, e, p) ==
  /\ Free(s)
  /\ IF \E u \in DOMAIN users : users[u].email = e
     THEN /\ last' = Resp("register", 409, s)
          /\ UNCHANGED <<users, nU, pwSet>>
     ELSE /\ nU < MaxUsers
          /\ nU' = nU + 1
          /\ users' = (nU + 1 :> NewUser(nU + 1, e, "user", p)) @@ users
          /\ pwSet' = (nU + 1 :> p) @@ pwSet
          /\ last' = Answer("register", 201,
                            [success |-> TRUE, user |-> ToJSON(users'[nU + 1]),
                             token |-> Jwt(nU + 1)],
                            [Idle EXCEPT !.id = nU + 1])
  /\ Step(s, Idle)
  /\ UNCHANGED <<storeVars, nT, now, spent>>

\* forgotPassword up to its second await: getUserByEmail, then
\* user.getResetPasswordToken() draws the token and computes the expiry.
ForgotPasswordLookup(s, e) ==
  /\ Free(s)
  /\ LET found == {u \in DOMAIN users : users[u].email = e} IN
     IF found = {}
     THEN /\ Step(s, Idle)
          /\ last' = Resp("forgotPassword", 404, s)
          /\ UNCHANGED nT
     ELSE /\ nT < MaxTokens
          /\ nT' = nT + 1
          /\ Step(s, [Idle EXCEPT !.pc = "fp_set",
                                  !.id = CHOOSE u \in found : TRUE,
                                  !.val = nT + 1,
                                  !.obj = [expire |-> Num(now + ResetTokenTTL)]])
          /\ last' = NoResp
  /\ UNCHANGED <<storeVars, users, nU, now, spent, pwSet>>

\* userService.setPasswordResetFields: the hash and the expiry are stored.
ForgotPasswordSet(s) ==
  /\ req[s].pc = "fp_set"
  /\ users' = FindByIdAndUpdate(users, req[s].id,
                SetTo([resetPasswordToken |-> Sha256(req[s].val),
                       resetPasswordExpire |-> req[s].obj.expire]))
  /\ Step(s, [req[s] EXCEPT !.pc = "fp_mail"])
  /\ last' = NoResp
  /\ UNCHANGED <<storeVars, nU, nT, now, spent, pwSet>>

\* sendEmail resolves (200) or rejects (the catch block follows).
ForgotPasswordMail(s, sent) ==
  /\ req[s].pc = "fp_mail"
  /\ IF sent
     THEN /\ Step(s, Idle)
          /\ last' = Reply("forgotPassword", 200, req[s])
     ELSE /\ Step(s, [req[s] EXCEPT !.pc = "fp_clear"])
          /\ last' = NoResp
  /\ UNCHANGED <<storeVars, authVars>>

\* userService.clearPasswordResetFields: findByIdAndUpdate with both
\* fields set to `undefined`.
ClearPasswordResetFields ==
  SetUndefined([resetPasswordToken |-> NoString, resetPasswordExpire |-> Absent])

\* The catch block of forgotPassword: clear the fields, answer 500.
ForgotPasswordClear(s) ==
  /\ req[s].pc = "fp_clear"
  /\ users' = FindByIdAndUpdate(users, req[s].id, ClearPasswordResetFields)
  /\ Step(s, Idle)
  /\ last' = Reply("forgotPassword", 500, req[s])
  /\ UNCHANGED <<storeVars, nU, nT, now, spent, pwSet>>

\* `resetPasswordExpire: { $gt: t }`: an absent field matches no $gt.
ExpiresAfter(doc, t) == doc.resetPasswordExpire.def /\ doc.resetPasswordExpire.num > t

\* The findOne filter with the expiry test left out.
MatchesHashOnly(doc, h, t) == doc.resetPasswordToken = h

\* The filter of userService.getUserByValidResetToken.
MatchesValidResetToken(doc, h, t) ==
  doc.resetPasswordToken = h /\ ExpiresAfter(doc, t)

GetUserByValidResetToken(h, t) ==
  {u \in DOMAIN users : MatchesValidResetToken(users[u], h, t)}

\* What holds of token t when a resetPassword request with it arrives
\* (kept with the request so that its response can be judged):
\*   reused - a resetPassword request with t has succeeded before
\*   stale  - t hashes to a stored hash whose expiry is not in the future
\*   before - the stored password of the user holding that hash
TokenInfo(t) ==
  LET holders == {u \in DOMAIN users : users[u].resetPasswordToken = Sha256(t)}
  IN [reused |-> t \in spent,
      stale  |-> \E u \in holders : ~ExpiresAfter(users[u], now),
      before |-> IF holders = {} THEN NoString
                 ELSE users[CHOOSE u \in holders : TRUE].password]

\* resetPassword up to updatePasswordById: hash the token of the URL, look
\* the user up, test the body for a password.  p = "" is a body without one.
ResetPasswordLookup(s, t, p) ==
  /\ Free(s)
  /\ t <= nT
  /\ LET found == GetUserByValidResetToken(Sha256(t), now)
         r == [Idle EXCEPT !.val = t, !.key = p, !.obj = TokenInfo(t)]
     IN IF found = {} \/ p = ""
        THEN /\ Step(s, Idle)
             /\ last' = Reply("resetPassword", 400, r)
        ELSE /\ Step(s, [r EXCEPT !.pc = "rp_find", !.id = CHOOSE u \in found : TRUE])
             /\ last' = NoResp
  /\ UNCHANGED <<storeVars, authVars>>

\* userService.updatePasswordById, first await: User.findById.
ResetPasswordFind(s) ==
  /\ req[s].pc = "rp_find"
  /\ IF req[s].id \in DOMAIN users
     THEN /\ Step(s, [req[s] EXCEPT !.pc = "rp_save"])
          /\ last' = NoResp
     ELSE /\ Step(s, Idle)
          /\ last' = Reply("resetPassword", 404, req[s])
  /\ UNCHANGED <<storeVars, authVars>>

\* user.save() after `user.password = p`: password is the one modified
\* path, so the pre-save hook hashes it and only it is written.
SavePassword(us, u, p) ==
  FindByIdAndUpdate(us, u, SetTo([password |-> Bcrypt(Plain(p))]))

\* userService.updatePasswordById, user.save().  A document deleted since
\* findById makes save() reject (no document matches), which ends in 500.
ResetPasswordSave(s) ==
  /\ req[s].pc = "rp_save"
  /\ IF req[s].id \in DOMAIN users
     THEN /\ users' = SavePassword(users, req[s].id, req[s].key)
          /\ pwSet' = [pwSet EXCEPT ![req[s].id] = req[s].key]
          /\ Step(s, [req[s] EXCEPT !.pc = "rp_clear"])
          /\ last' = NoResp
     ELSE /\ Step(s, Idle)
          /\ last' = Reply("resetPassword", 500, req[s])
          /\ UNCHANGED <<users, pwSet>>
  /\ UNCHANGED <<storeVars, nU, nT, now, spent>>

\* clearPasswordResetFields, then sendTokenResponse(updatedUser, 200, res).
ResetPasswordClear(s) ==
  /\ req[s].pc = "rp_clear"
  /\ users' = FindByIdAndUpdate(users, req[s].id, ClearPasswordResetFields)
  /\ spent' = spent \cup {req[s].val}
  /\ Step(s, Idle)
  /\ last' = Reply("resetPassword", 200, req[s])
  /\ UNCHANGED <<storeVars, nU, nT, now, pwSet>>

\* Time passes; the clock is read every five minutes.
Tick ==
  /\ now + 5 <= MaxTime
  /\ now' = now + 5
  /\ last' = NoResp
  /\ UNCHANGED <<storeVars, users, nU, nT, spent, req, pwSet>>

\* ---------------------------------------------------------------- login
\* user.matchPassword: bcrypt.compare(entered, stored hash).
MatchPassword(entered, stored) == stored = Bcrypt(Plain(entered))

\* The answer of login when a user has the email and the password differs.
LoginMismatch == [status |-> 401, body |-> [success |-> FALSE, error |-> "Invalid credentials"]]

\* An answer that tells the client that no account has the email.
LoginUnknownEmail == [status |-> 404, body |-> [success |-> FALSE, error |-> "User not found"]]

\* The answer of login when no user has the email.
LoginNoUser == [status |-> 401, body |-> [success |-> FALSE, error |-> "Invalid credentials"]]

\* login up to matchPassword: getUserByEmail(email, true), the one read
\* that includes the password.  e and p are a well-formed email and a
\* non-empty password (LoginDTO accepts them).
LoginLookup(s, e, p) ==
  /\ Free(s)
  /\ LET found == {u \in DOMAIN users : users[u].email = e} IN
     IF found = {}
     THEN /\ Step(s, Idle)
          /\ last' = Answer("login", LoginNoUser.status, LoginNoUser.body,
                            [Idle EXCEPT !.key = p, !.obj = [known |-> FALSE, entered |-> p]])
     ELSE /\ LET u == CHOOSE v \in found : TRUE IN
               Step(s, [Idle EXCEPT !.pc = "li_match", !.id = u, !.key = p,
                          !.obj = [known |-> TRUE, entered |-> p,
                                   password |-> users[u].password]])
          /\ last' = NoResp
  /\ UNCHANGED <<storeVars, authVars>>

\* login after the lookup: matchPassword on the document read, then
\* sendTokenResponse(user, 200, res).
LoginMatch(s) ==
  /\ req[s].pc = "li_match"
  /\ IF MatchPassword(req[s].key, req[s].obj.password)
     THEN last' = Answer("login", 200, [success |-> TRUE, token |-> Jwt(req[s].id)], req[s])
     ELSE last' = Answer("login", LoginMismatch.status, LoginMismatch.body, req[s])
  /\ Step(s, Idle)
  /\ UNCHANGED <<storeVars, authVars>>

\* -------------------------------------------------------- guarded routes
\* What a request can carry as its token: none, one with a bad signature,
\* and for each user id a token as issued and one that has expired.
NoToken == [sig |-> "none", id |-> 0, expired |-> FALSE]
Forged == [sig |-> "bad", id |-> 1, expired |-> FALSE]
ExpiredJwt(u) == [Jwt(u) EXCEPT !.expired = TRUE]
TokenInputs ==
  {NoToken, Forged} \cup {Jwt(u) : u \in UserIds} \cup {ExpiredJwt(u) : u \in UserIds}

\* jwt.verify(token, JWT_SECRET) returns the payload (does not throw).
Verify(tok) == tok.sig = "good" /\ ~tok.expired

\* req.user when User.findById found nothing: null.
NullUser == [_id |-> 0]

\* User.findById(id) as a query: the document without its password, or null.
FindById(us, id) == IF id \in DOMAIN us THEN Selected(us[id]) ELSE NullUser

\* The routes behind protect; those of the users router are also behind
\* authorize("admin").
AuthRoutes == {"getMe", "updatePassword"}
UsersRoutes == {"getAllUsers", "createUser", "getUserById", "updateUser", "deleteUser"}

\* A role guard that lets every role pass.
AllowsAnyRole(roles, role) == TRUE

\* authorize(...roles): roles.includes(req.user.role).
Allows(roles, role) == role \in roles

NotAuthorized == [success |-> FALSE, error |-> "Not authorized to access this route"]
ServerError == [success |-> FALSE, error |-> "Server Error"]

\* An operator of the deployment inserts the admin account into the users
\* collection: no route creates an admin (CreateUserDTO admits the roles
\* user and publisher only).
SeedAdmin ==
  /\ nU < MaxUsers
  /\ \A u \in DOMAIN users : users[u].role # "admin" /\ users[u].email # "root@dev.io"
  /\ nU' = nU + 1
  /\ users' = (nU + 1 :> NewUser(nU + 1, "root@dev.io", "admin", "pw1")) @@ users
  /\ pwSet' = (nU + 1 :> "pw1") @@ pwSet
  /\ last' = NoResp
  /\ UNCHANGED <<storeVars, req, nT, now, spent>>

\* protect, and behind it the synchronous middleware of the route: the
\* token is taken from the request, verified, and the user it names is read
\* with User.findById; whatever the read returns, next() is called.  On a
\* users route authorize("admin") runs next: reading the role of a null
\* user throws, which the error handler answers with 500.  A good token
\* names a user id that was handed out.
Protect(s, tok, route) ==
  /\ Free(s)
  /\ tok.sig = "good" => tok.id <= nU
  /\ LET user == FindById(users, tok.id)
         r == [Idle EXCEPT !.obj = [tok |-> tok, user |-> user]]
     IN IF ~Verify(tok)
        THEN /\ Step(s, Idle)
             /\ last' = Answer(route, 401, NotAuthorized, r)
        ELSE IF route \in UsersRoutes /\ user._id = 0
        THEN /\ Step(s, Idle)
             /\ last' = Answer(route, 500, ServerError, r)
        ELSE IF route \in UsersRoutes /\ ~Allows({"admin"}, user.role)
        THEN /\ Step(s, Idle)
             /\ last' = Answer(route, 403, [success |-> FALSE, error |-> <<"unauthorized role", user.role>>], r)
        ELSE /\ Step(s, [r EXCEPT !.pc = route])
             /\ last' = NoResp
  /\ UNCHANGED <<storeVars, authVars>>

\* getMe: userService.getUserById(req.user.id).  With req.user null the
\* handler throws while reading the id (500).
GetMe(s) ==
  /\ req[s].pc = "getMe"
  /\ IF req[s].obj.user._id = 0
     THEN last' = Answer("getMe", 500, ServerError, req[s])
     ELSE last' = Answer("getMe", 200,
                         [success |-> TRUE,
                          data |-> FindById(users, req[s].obj.user._id)], req[s])
  /\ Step(s, Idle)
  /\ UNCHANGED <<storeVars, authVars>>

\* deleteUser: userService.deleteUserById(id), then 204 whatever it returned.
DeleteUser(s, id) ==
  /\ req[s].pc = "deleteUser"
  /\ users' = Remove(users, {id})
  /\ pwSet' = Remove(pwSet, {id})
  /\ Step(s, Idle)
  /\ last' = Answer("deleteUser", 204,
                    [success |-> TRUE, found |-> id \in DOMAIN users],
                    [req[s] EXCEPT !.id = id])
  /\ UNCHANGED <<storeVars, nU, nT, now, spent>>

\* updatePassword up to updatePasswordById: getUserByIdWithPassword, then
\* matchPassword(currentPassword) on the document read.  cur and new are
\* the two passwords of the body.
UpdatePasswordRead(s, cur, new) ==
  /\ req[s].pc = "updatePassword"
  /\ LET u == req[s].obj.user._id IN
     IF u = 0
     THEN /\ Step(s, Idle)
          /\ last' = Answer("updatePassword", 500, ServerError, req[s])
     ELSE IF u \notin DOMAIN users
     THEN /\ Step(s, Idle)
          /\ last' = Answer("updatePassword", 404, [success |-> FALSE], req[s])
     ELSE IF ~MatchPassword(cur, users[u].password)
     THEN /\ Step(s, Idle)
          /\ last' = Answer("updatePassword", 401,
                            [success |-> FALSE, error |-> "Password is incorrect"], req[s])
     ELSE /\ Step(s, [req[s] EXCEPT !.pc = "up_find", !.id = u, !.key = new])
          /\ last' = NoResp
  /\ UNCHANGED <<storeVars, authVars>>

\* userService.updatePasswordById, first await: User.findById.
UpdatePasswordFind(s) ==
  /\ req[s].pc = "up_find"
  /\ IF req[s].id \in DOMAIN users
     THEN /\ Step(s, [req[s] EXCEPT !.pc = "up_save"])
          /\ last' = NoResp
     ELSE /\ Step(s, Idle)
          /\ last' = Answer("updatePassword", 404, [success |-> FALSE], req[s])
  /\ UNCHANGED <<storeVars, authVars>>

\* userService.updatePasswordById, user.save(), then
\* sendTokenResponse(updatedUser, 200, res).
UpdatePasswordSave(s) ==
  /\ req[s].pc = "up_save"
  /\ IF req[s].id \in DOMAIN users
     THEN /\ users' = SavePassword(users, req[s].id, req[s].key)
          /\ pwSet' = [pwSet EXCEPT ![req[s].id] = req[s].key]
          /\ last' = Answer("updatePassword", 200,
                            [success |-> TRUE, token |-> Jwt(req[s].id)], req[s])
     ELSE /\ last' = Answer("updatePassword", 500, ServerError, req[s])
          /\ UNCHANGED <<users, pwSet>>
  /\ Step(s, Idle)
  /\ UNCHANGED <<storeVars, nU, nT, now, spent>>

\* Bodies of PATCH /users/:id as UpdateUserDTO passes them on: a new
\* password, or a new role.
PasswordBodies == {[password |-> Plain(p)] : p \in Passwords}
UpdateUserBodies == PasswordBodies \cup {[role |-> "publisher"]}

\* The body handed to findByIdAndUpdate as it is.
RawUpdateData(body) == body

\* adminUpdateUserById: a password in the body is hashed by hand, since
\* findByIdAndUpdate runs no save hook.
AdminUpdateData(body) ==
  IF "password" \in DOMAIN body
  THEN [body EXCEPT !.password = Bcrypt(body.password)]
  ELSE body

\* updateUser -> userService.adminUpdateUserById(id, dto).
UpdateUser(s, id, body) ==
  /\ req[s].pc = "updateUser"
  /\ users' = FindByIdAndUpdate(users, id, SetTo(AdminUpdateData(body)))
  /\ pwSet' = IF "password" \in DOMAIN body /\ id \in DOMAIN users
              THEN [pwSet EXCEPT ![id] = body.password[1]]
              ELSE pwSet
  /\ IF id \in DOMAIN users
     THEN last' = Answer("updateUser", 200,
                         [success |-> TRUE, user |-> FindById(users', id)],
                         [req[s] EXCEPT !.id = id])
     ELSE last' = Answer("updateUser", 404, [success |-> FALSE],
                         [req[s] EXCEPT !.id = id])
  /\ Step(s, Idle)
  /\ UNCHANGED <<storeVars, nU, nT, now, spent>>

\* getAllUsers -> userService.getAllUsers(null, null, null), first await:
\* countDocuments.  With limit 0 the count is not used.
GetAllUsersCount(s) ==
  /\ req[s].pc = "getAllUsers"
  /\ Step(s, [req[s] EXCEPT !.pc = "gau_find"])
  /\ last' = NoResp
  /\ UNCHANGED <<storeVars, authVars>>

\* userService.getAllUsers, second await: the query itself; 200 with the
\* documents found.
GetAllUsersFind(s) ==
  /\ req[s].pc = "gau_find"
  /\ Step(s, Idle)
  /\ last' = Answer("getAllUsers", 200,
                    [success |-> TRUE,
                     users |-> {Selected(users[u]) : u \in DOMAIN users},
                     count |-> Cardinality(DOMAIN users)], req[s])
  /\ UNCHANGED <<storeVars, authVars>>

\* getUserById -> userService.getUserById(id): 404 when null.
GetUserById(s, id) ==
  /\ req[s].pc = "getUserById"
  /\ Step(s, Idle)
  /\ IF id \in DOMAIN users
     THEN last' = Answer("getUserById", 200,
                         [success |-> TRUE, user |-> FindById(users, id)],
                         [req[s] EXCEPT !.id = id])
     ELSE last' = Answer("getUserById", 404, [success |-> FALSE],
                         [req[s] EXCEPT !.id = id])
  /\ UNCHANGED <<storeVars, authVars>>

\* The roles CreateUserDTO lets through.
CreateUserRoles == {"user", "publisher"}

\* createUser -> userService.createUser(dto): new User(...).save(); a
\* duplicate email is a duplicate-key error (409).
CreateUser(s, e, r, p) ==
  /\ req[s].pc = "createUser"
  /\ r \in CreateUserRoles
  /\ IF \E u \in DOMAIN users : users[u].email = e
     THEN /\ last' = Answer("createUser", 409, [success |-> FALSE], req[s])
          /\ UNCHANGED <<users, nU, pwSet>>
     ELSE /\ nU < MaxUsers
          /\ nU' = nU + 1
          /\ users' = (nU + 1 :> NewUser(nU + 1, e, r, p)) @@ users
          /\ pwSet' = (nU + 1 :> p) @@ pwSet
          /\ last' = Answer("createUser", 201,
                            [success |-> TRUE, user |-> ToJSON(users'[nU + 1])],
                            [req[s] EXCEPT !.id = nU + 1])
  /\ Step(s, Idle)
  /\ UNCHANGED <<storeVars, nT, now, spent>>

\* --------------------------------------------------------- list requests
\* A query string as Express parses it: parameter name -> [op, val], op ""
\* for name=v and the bracketed word for name[op]=v; val is the value as
\* its sequence of words.  A collection is seen through the numbers of its
\* records that match the translated filter (matching) and that do not
\* (others).
ListKinds == {"bootcamps", "courses", "reviews", "users"}
MaxTotal == 27
DefaultPage == 1
DefaultLimit == 25

removeFields == {"select", "sort", "page", "limit"}
Operators == {"gt", "gte", "lt", "lte", "in"}

\* The replacement /\b(gt|gte|lt|lte|in)\b/g -> "$" + match, on one word.
Dollar(w) ==
  CASE w = "gt" -> "$gt" [] w = "gte" -> "$gte" [] w = "lt" -> "$lt"
    [] w = "lte" -> "$lte" [] w = "in" -> "$in" [] OTHER -> w

\* Number(string) on the strings used here; anything else is NaN.
Decimal == ("0" :> 0) @@ ("1" :> 1) @@ ("2" :> 2) @@ ("3" :> 3) @@ ("10" :> 10)
NumberOf(val) ==
  IF Len(val) = 1 /\ val[1] \in DOMAIN Decimal
  THEN [nan |-> FALSE, n |-> Decimal[val[1]]]
  ELSE [nan |-> TRUE, n |-> 0]

\* if (query.x) { if (typeof query.x === "string") { parsed = Number(query.x);
\* if (!Number.isNaN(parsed) && parsed > 0) x = parsed } }
ParsePositive(q, name, default) ==
  IF name \in DOMAIN q /\ q[name].op = "" /\ q[name].val # <<>>
  THEN LET parsed == NumberOf(q[name].val)
       IN IF ~parsed.nan /\ parsed.n > 0 THEN parsed.n ELSE default
  ELSE default

\* paginationObj = { skip, page, limit }
PaginationObj(q) ==
  LET page == ParsePositive(q, "page", DefaultPage)
      limit == ParsePositive(q, "limit", DefaultLimit)
  IN [page |-> page, limit |-> limit, skip |-> (page - 1) * limit]

\* The pagination the users controller passes: getAllUsers(null, null, null).
NoPaginationObj == [page |-> 1, limit |-> 0, skip |-> 0]

\* JSON.parse(JSON.stringify(reqQuery).replace(...)): the reserved
\* parameters are deleted, then every whole word gt, gte, lt, lte, in of
\* the text, whether a name, a bracketed word or a word of a value, gets "$".
TranslateFilter(q) ==
  {[field |-> Dollar(n), op |-> Dollar(q[n].op),
    val |-> [i \in 1..Len(q[n].val) |-> Dollar(q[n].val[i])]] :
      n \in DOMAIN q \ removeFields}

\* The same with the replacement confined to the bracketed word.
TranslateOperatorsOnly(q) ==
  {[field |-> n, op |-> Dollar(q[n].op), val |-> q[n].val] :
      n \in DOMAIN q \ removeFields}

\* Model.find(filter).countDocuments(): an empty filter matches every record.
CountDocuments(filter, matching, others) ==
  IF filter = {} THEN matching + others ELSE matching

\* The number of records find(filter).skip(skip).limit(limit) returns:
\* skip is applied when skip >= 0, limit when limit > 0.
Found(p, totalCount) ==
  LET rest == IF p.skip >= 0
              THEN (IF totalCount > p.skip THEN totalCount - p.skip ELSE 0)
              ELSE totalCount
  IN IF p.limit > 0 /\ rest > p.limit THEN p.limit ELSE rest

\* resultPagination of getAll*/getFiltered* (bootcamps, courses, reviews):
\* each of next and prev is absent (empty) or one {page, limit}.
Pagination(p, totalCount) ==
  [next |-> IF p.page * p.limit < totalCount
            THEN {[page |-> p.page + 1, limit |-> p.limit]} ELSE {},
   prev |-> IF p.skip > 0
            THEN {[page |-> p.page - 1, limit |-> p.limit]} ELSE {}]

\* resultPagination of userService.getAllUsers: computed only if limit > 0.
UsersPagination(p, totalCount) ==
  IF p.limit > 0 THEN Pagination(p, totalCount) ELSE [next |-> {}, prev |-> {}]

\* The controller up to its service call: the query is split into filter
\* and pagination.  getAllUsers reads nothing of the query.
ListParse(s) ==
  /\ req[s].pc = "list"
  /\ LET o == req[s].obj
         users_ == o.kind = "users"
     IN Step(s, [req[s] EXCEPT !.pc = "list_count", !.obj =
          [kind |-> o.kind, query |-> o.query, matching |-> o.matching,
           others |-> o.others,
           filter |-> IF users_ \/ DOMAIN o.query = {} THEN {}
                      ELSE TranslateFilter(o.query),
           pagination |-> IF users_ THEN NoPaginationObj
                          ELSE PaginationObj(o.query)]])
  /\ last' = NoResp
  /\ UNCHANGED <<storeVars, authVars>>

\* The service, first await: total.countDocuments().
ListCount(s) ==
  /\ req[s].pc = "list_count"
  /\ Step(s, [req[s] EXCEPT !.pc = "list_find",
                            !.val = CountDocuments(req[s].obj.filter,
                                                   req[s].obj.matching,
                                                   req[s].obj.others)])
  /\ last' = NoResp
  /\ UNCHANGED <<storeVars, authVars>>

\* The service, second await: the query; then the 200 of the controller,
\* with the records found and the pagination metadata.
ListFind(s) ==
  /\ req[s].pc = "list_find"
  /\ LET o == req[s].obj
         total == CountDocuments(o.filter, o.matching, o.others)
     IN last' = Answer("list", 200,
                       [success |-> TRUE,
                        count |-> Found(o.pagination, total),
                        pagination |-> IF o.kind = "users"
                                       THEN UsersPagination(o.pagination, req[s].val)
                                       ELSE Pagination(o.pagination, req[s].val)],
                       req[s])
  /\ Step(s, Idle)
  /\ UNCHANGED <<storeVars, authVars>>

\* getCourses with no filter, against the course collection itself.
\* courseService.getAllCourses, first await: total.countDocuments().
GetCoursesCount(s, page, limit) ==
  /\ Free(s)
  /\ Step(s, [Idle EXCEPT !.pc = "gc_find",
                          !.obj = [page |-> page, limit |-> limit,
                                   skip |-> (page - 1) * limit],
                          !.val = Cardinality(DOMAIN courses)])
  /\ last' = NoResp
  /\ UNCHANGED <<storeVars, authVars>>

\* The records find().skip(skip).limit(limit) returns, in the order of ids.
Page(coll, p) ==
  {c \in DOMAIN coll :
     LET before == Cardinality({d \in DOMAIN coll : d < c})
     IN before >= p.skip /\ (p.limit > 0 => before < p.skip + p.limit)}

\* courseService.getAllCourses, second await: the paginated query; the
\* metadata comes from the count taken before.
GetCoursesFind(s) ==
  /\ req[s].pc = "gc_find"
  /\ last' = Answer("getCourses", 200,
                    [success |-> TRUE, data |-> Page(courses, req[s].obj),
                     pagination |-> Pagination(req[s].obj, req[s].val)], req[s])
  /\ Step(s, Idle)
  /\ UNCHANGED <<storeVars, authVars>>

\* Query strings of list requests.
Param(op, val) == [op |-> op, val |-> val]
PageParams == {Param("", <<w>>) : w \in {"0", "1", "2", "3", "x"}}
LimitParams == {Param("", <<w>>) : w \in {"0", "1", "10"}}
NameParams == {Param("", <<"Devworks">>), Param("", <<"Women", "in", "Tech">>)}
CostParams == {Param(op, <<"10">>) : op \in Operators \cup {""}}

\* Every query that gives each name of names one of its values or omits it.
QueriesOver(choices) ==
  UNION {[names -> UNION {choices[n] : n \in names}] : names \in SUBSET DOMAIN choices}

WellFormed(q, choices) == \A n \in DOMAIN q : q[n] \in choices[n]

PagingChoices ==
  ("page" :> PageParams) @@ ("limit" :> LimitParams)
    @@ ("name" :> {Param("", <<"Devworks">>)})
FilterChoices ==
  ("select" :> {Param("", <<"name">>)}) @@ ("sort" :> {Param("", <<"name">>)})
    @@ ("limit" :> {Param("", <<"1">>)}) @@ ("name" :> NameParams)
    @@ ("averageCost" :> CostParams)
PagingQueries == {q \in QueriesOver(PagingChoices) : WellFormed(q, PagingChoices)}
FilterQueries == {q \in QueriesOver(FilterChoices) : WellFormed(q, FilterChoices)}

\* -------------------------------------------------- validation of bodies
\* A string of a body is seen through its length after trimming (len) and
\* the number of blanks around it (pad); def is FALSE for a field the body
\* does not have.
Str(pad, len) == [def |-> TRUE, pad |-> pad, len |-> len]
NoStr == [def |-> FALSE, pad |-> 0, len |-> 0]
Trim(str) == [str EXCEPT !.pad = 0]
Length(str) == str.pad + str.len

DtoMaxName == 50
DtoMaxDescription == 165
DtoMaxPhone == 20
SchemaMaxName == 50
SchemaMaxDescription == 250
SchemaMaxPhone == 20

\* isNonEmptyString: a string with something left after trim().
isNonEmptyString(str) == str.def /\ str.len > 0

\* new CreateBootcampDTO(data) does not throw.
DtoAccepts(data) ==
  /\ isNonEmptyString(data.name) /\ Length(Trim(data.name)) <= DtoMaxName
  /\ isNonEmptyString(data.description)
  /\ Length(Trim(data.description)) <= DtoMaxDescription
  /\ isCareer(data.career)
  /\ data.phone.def =>
       isNonEmptyString(data.phone) /\ Length(Trim(data.phone)) <= DtoMaxPhone

\* The fields of the DTO built from an accepted body: trimmed.
DtoFields(data) ==
  [name |-> Trim(data.name), description |-> Trim(data.description),
   career |-> data.career,
   phone |-> IF data.phone.def THEN Trim(data.phone) ELSE NoStr]

\* Validation by bootcampSchema of a document with these values: name is
\* trimmed by the schema (trim: true) before required and maxLength,
\* description and phone are not; required on a string asks for a length
\* above 0.
SchemaAccepts(doc) ==
  /\ doc.name.def /\ Length(Trim(doc.name)) > 0
  /\ Length(Trim(doc.name)) <= SchemaMaxName
  /\ doc.description.def /\ Length(doc.description) > 0
  /\ Length(doc.description) <= SchemaMaxDescription
  /\ isCareer(doc.career)
  /\ doc.phone.def => Length(doc.phone) <= SchemaMaxPhone

\* addBootcamp at new CreateBootcampDTO(req.body), field by field: a body
\* the constructor refuses ends in the error handler (500).
ValidateDto(s) ==
  /\ req[s].pc = "dto"
  /\ IF DtoAccepts(req[s].obj.body)
     THEN /\ Step(s, [req[s] EXCEPT !.pc = "schema",
                        !.obj = [body |-> req[s].obj.body,
                                 dto |-> DtoFields(req[s].obj.body)]])
          /\ last' = NoResp
     ELSE /\ Step(s, Idle)
          /\ last' = Answer("validate", 500, ServerError, req[s])
  /\ UNCHANGED <<storeVars, authVars>>

\* bootcamp.save(): the document built from the DTO is validated by the
\* schema; a ValidationError ends in the error handler (500).
ValidateSchema(s) ==
  /\ req[s].pc = "schema"
  /\ Step(s, Idle)
  /\ last' = Answer("validate", IF SchemaAccepts(req[s].obj.dto) THEN 201 ELSE 500,
                    [success |-> SchemaAccepts(req[s].obj.dto)], req[s])
  /\ UNCHANGED <<storeVars, authVars>>

\* The bodies tried: lengths on both sides of every limit.
NameStrings == {Str(pad, len) : pad \in {0, 1}, len \in {0, 50, 51}}
DescriptionStrings ==
  {Str(pad, len) : pad \in {0, 1}, len \in {0, 165, 166, 250, 251}}
PhoneStrings == {NoStr} \cup {Str(pad, len) : pad \in {0, 1}, len \in {0, 20, 21}}
Bodies ==
  [name : NameStrings, description : DescriptionStrings, phone : PhoneStrings,
   career : BodyCareers]

\* ------------------------------------------------------- specifications
AddBootcampNext ==
  \/ \E s \in Slots, u \in Requesters, n \in Names : AddBootcampCheck(s, u, n)
  \/ \E s \in Slots : AddBootcampSave(s)

\* One publisher adding one bootcamp.
AddOneBootcampNext ==
  \/ \E s \in Slots : AddBootcampCheck(s, "u1", "Devworks")
  \/ \E s \in Slots : AddBootcampSave(s)

UpdateBootcampNext ==
  \/ \E s \in Slots, u \in Requesters, b \in BootcampIds : UpdateBootcampCheck(s, u, b)
  \/ \E s \in Slots, body \in BootcampBodies : UpdateBootcampWrite(s, body)

DeleteBootcampNext ==
  \/ \E s \in Slots, b \in BootcampIds : DeleteBootcampRespond(s, b)
  \/ \E s \in Slots : DeleteBootcampFind(s)
  \/ \E s \in Slots : DeleteBootcampCascade(s)
  \/ \E s \in Slots : DeleteBootcampRemove(s)

CreateDeleteCourseNext ==
  \/ \E s \in Slots, b \in BootcampIds : AddCourseCheck(s, b)
  \/ \E s \in Slots, t \in Tuitions : AddCourseSave(s, t)
  \/ \E s \in Slots, c \in CourseIds : DeleteCourse(s, c)
  \/ \E s \in Slots : CostAggregate(s)
  \/ \E s \in Slots : CostUpdate(s)

UpdateCourseNext ==
  \E s \in Slots, c \in CourseIds, t \in Tuitions : UpdateCourse(s, c, t)

ReviewNext(R) ==
  \/ \E s \in Slots, u \in Requesters, b \in BootcampIds : AddReviewCheck(s, u, b)
  \/ \E s \in Slots, r \in R : AddReviewSave(s, r)
  \/ \E s \in Slots, r \in ReviewIds : DeleteReview(s, r)
  \/ \E s \in Slots : RatingAggregate(s)
  \/ \E s \in Slots : RatingUpdate(s)
  \/ \E s \in Slots, u \in Requesters, r \in ReviewIds : UpdateReviewCheck(s, u, r)
  \/ \E s \in Slots : \E dto \in UpdateReviewDTO(req[s].user, R) : UpdateReviewWrite(s, dto)

\* Bootcamp requests: create, update, delete (with its cascade).
Next == AddBootcampNext \/ UpdateBootcampNext \/ DeleteBootcampNext
Spec == Init /\ [][Next]_vars

\* Course requests under one bootcamp, and the bootcamp's deletion.
CourseNext ==
  AddOneBootcampNext \/ CreateDeleteCourseNext \/ UpdateCourseNext \/ DeleteBootcampNext
SpecCourse == Init /\ [][CourseNext]_vars

\* Course create and delete requests only.
CreateDeleteNext == AddOneBootcampNext \/ CreateDeleteCourseNext
SpecCreateDelete == Init /\ [][CreateDeleteNext]_vars

\* Review requests under one bootcamp; every review carries the same rating.
ReviewSpecNext == AddOneBootcampNext \/ ReviewNext({5})
SpecReview == Init /\ [][ReviewSpecNext]_vars

\* The password-reset flow for users with emails E and passwords P; t = 0
\* is a token that was never issued.
AuthNext(E, P) ==
  \/ \E s \in Slots, e \in E, p \in P : Register(s, e, p)
  \/ \E s \in Slots, e \in E : ForgotPasswordLookup(s, e)
  \/ \E s \in Slots : ForgotPasswordSet(s)
  \/ \E s \in Slots, sent \in BOOLEAN : ForgotPasswordMail(s, sent)
  \/ \E s \in Slots : ForgotPasswordClear(s)
  \/ \E s \in Slots, t \in 0..MaxTokens, p \in P \cup {""} : ResetPasswordLookup(s, t, p)
  \/ \E s \in Slots : ResetPasswordFind(s)
  \/ \E s \in Slots : ResetPasswordSave(s)
  \/ \E s \in Slots : ResetPasswordClear(s)
  \/ Tick

AuthSpecNext == AuthNext(Emails, Passwords)
SpecAuth == Init /\ [][AuthSpecNext]_vars

\* One account and one password.
OneAccountNext == AuthNext({"ann@dev.io"}, {"pw1"})
SpecOneAccount == Init /\ [][OneAccountNext]_vars

\* Registration and login.
LoginNext ==
  \/ \E s \in Slots, e \in Emails, p \in Passwords : LoginLookup(s, e, p)
  \/ \E s \in Slots : LoginMatch(s)
RegisterNext == \E s \in Slots, e \in Emails, p \in Passwords : Register(s, e, p)
LoginSpecNext == RegisterNext \/ LoginNext
SpecLogin == Init /\ [][LoginSpecNext]_vars

\* Accounts: one registered user and the admin; login, getMe and every way
\* to set a password, the user's own requests carrying the user's token.
PasswordNext ==
  \/ SeedAdmin
  \/ \E s \in Slots : Register(s, "ann@dev.io", "pw1")
  \/ \E s \in Slots, p \in Passwords : LoginLookup(s, "ann@dev.io", p)
  \/ \E s \in Slots : LoginMatch(s)
  \/ \E s \in Slots, u \in UserIds, route \in {"getMe", "updatePassword", "updateUser"} :
        Protect(s, Jwt(u), route)
  \/ \E s \in Slots : GetMe(s)
  \/ \E s \in Slots, cur \in Passwords, new \in Passwords : UpdatePasswordRead(s, cur, new)
  \/ \E s \in Slots : UpdatePasswordFind(s)
  \/ \E s \in Slots : UpdatePasswordSave(s)
  \/ \E s \in Slots, id \in UserIds, body \in PasswordBodies : UpdateUser(s, id, body)
  \/ \E s \in Slots : ForgotPasswordLookup(s, "ann@dev.io")
  \/ \E s \in Slots : ForgotPasswordSet(s)
  \/ \E s \in Slots : ForgotPasswordMail(s, TRUE)
  \/ \E s \in Slots, p \in Passwords : ResetPasswordLookup(s, 1, p)
  \/ \E s \in Slots : ResetPasswordFind(s)
  \/ \E s \in Slots : ResetPasswordSave(s)
  \/ \E s \in Slots : ResetPasswordClear(s)
SpecPassword == Init /\ [][PasswordNext]_vars

\* Guarded routes: tokens of every kind against getMe, with accounts that
\* are registered and deleted meanwhile.
GuardNext ==
  \/ SeedAdmin
  \/ \E s \in Slots : Register(s, "ann@dev.io", "pw1")
  \/ \E s \in Slots, tok \in TokenInputs, route \in {"getMe", "deleteUser"} :
        Protect(s, tok, route)
  \/ \E s \in Slots : GetMe(s)
  \/ \E s \in Slots, id \in UserIds : DeleteUser(s, id)
SpecGuard == Init /\ [][GuardNext]_vars

\* The users router: every kind of token against every users route.
UsersNext ==
  \/ SeedAdmin
  \/ \E s \in Slots : Register(s, "ann@dev.io", "pw1")
  \/ \E s \in Slots, tok \in TokenInputs, route \in UsersRoutes : Protect(s, tok, route)
  \/ \E s \in Slots : GetAllUsersCount(s)
  \/ \E s \in Slots : GetAllUsersFind(s)
  \/ \E s \in Slots, id \in UserIds : GetUserById(s, id)
  \/ \E s \in Slots, r \in CreateUserRoles : CreateUser(s, "bob@dev.io", r, "pw2")
  \/ \E s \in Slots, id \in UserIds, body \in UpdateUserBodies : UpdateUser(s, id, body)
  \/ \E s \in Slots, id \in UserIds : DeleteUser(s, id)
SpecUsers == Init /\ [][UsersNext]_vars

\* List requests: one request of each kind, for each query and each size
\* of the collection.
ListRequest(kind, q, matching, others) ==
  [Idle EXCEPT !.pc = "list",
               !.obj = [kind |-> kind, query |-> q, matching |-> matching,
                        others |-> others]]
ListInit ==
  /\ bootcamps = <<>> /\ courses = <<>> /\ reviews = <<>>
  /\ nB = 0 /\ nC = 0 /\ nR = 0
  /\ last = NoResp
  /\ users = <<>> /\ nU = 0 /\ nT = 0 /\ now = 0 /\ spent = {} /\ pwSet = <<>>
  /\ \E kind \in ListKinds, matching \in 0..MaxTotal, others \in {0, 1} :
       \/ \E q \in PagingQueries :
            req = [s \in Slots |-> IF s = 1 THEN ListRequest(kind, q, matching, others)
                                   ELSE Idle]
       \/ \E q \in FilterQueries :
            /\ matching <= 2
            /\ req = [s \in Slots |-> IF s = 1 THEN ListRequest(kind, q, matching, others)
                                      ELSE Idle]
ListNext ==
  \/ \E s \in Slots : ListParse(s)
  \/ \E s \in Slots : ListCount(s)
  \/ \E s \in Slots : ListFind(s)
SpecList == ListInit /\ [][ListNext]_vars

\* Creating bootcamps from bodies that pass or fail CreateBootcampDTO.
ValidateNext ==
  \/ \E s \in Slots, u \in Requesters, n \in Names : AddBootcampCheck(s, u, n)
  \/ \E s \in Slots : AddBootcampSave(s)
  \/ \E s \in Slots, c \in BodyCareers : AddBootcampInvalid(s, c)
SpecValidate == Init /\ [][ValidateNext]_vars

\* One create request for each body.
ValidateInit ==
  /\ bootcamps = <<>> /\ courses = <<>> /\ reviews = <<>>
  /\ nB = 0 /\ nC = 0 /\ nR = 0
  /\ last = NoResp
  /\ users = <<>> /\ nU = 0 /\ nT = 0 /\ now = 0 /\ spent = {} /\ pwSet = <<>>
  /\ \E body \in Bodies :
       req = [s \in Slots |-> IF s = 1 THEN [Idle EXCEPT !.pc = "dto",
                                                         !.obj = [body |-> body]]
                              ELSE Idle]
DtoNext ==
  \/ \E s \in Slots : ValidateDto(s)
  \/ \E s \in Slots : ValidateSchema(s)
SpecDto == ValidateInit /\ [][DtoNext]_vars

\* Course lists while courses are created and deleted.
CourseListNext ==
  \/ AddOneBootcampNext
  \/ CreateDeleteCourseNext
  \/ \E s \in Slots, page \in {1, 2}, limit \in {1, 2} : GetCoursesCount(s, page, limit)
  \/ \E s \in Slots : GetCoursesFind(s)
SpecCourseList == Init /\ [][CourseListNext]_vars

\* Course create and delete requests whose recomputation may fail.
RecomputeNext ==
  \/ AddOneBootcampNext
  \/ CreateDeleteCourseNext
  \/ \E s \in Slots : CostAggregateFails(s)
  \/ \E s \in Slots : CostUpdateFails(s)
SpecRecompute == Init /\ [][RecomputeNext]_vars

\* Courses of the bootcamp of u1, updated by the owner, an admin and a
\* third user.
CourseRequesters == Requesters \cup {"u2"}
CourseOwnerNext ==
  \/ AddOneBootcampNext
  \/ CreateDeleteCourseNext
  \/ \E s \in Slots, u \in CourseRequesters, c \in CourseIds, t \in Tuitions :
        UpdateCourseAs(s, u, c, t)
SpecCourseOwner == Init /\ [][CourseOwnerNext]_vars

\* =============================================================== claims
\* The average the aggregation yields for the children a bootcamp has now;
\* absent when it has none.
ExpectedCost(b) ==
  IF CoursesOf(courses, b) = {} THEN Absent ELSE AggregateCost(courses, b)[1]
ExpectedRating(b) ==
  IF ReviewsOf(reviews, b) = {} THEN Absent ELSE AggregateRating(reviews, b)[1]

\* C1: in every reachable state each user whose role is not admin owns at
\* most one bootcamp, also when the same user issues two addBootcamp
\* requests concurrently.
C1_OneBootcampPerPublisher ==
  \A u \in Requesters : Role(u) # "admin" => Cardinality(OwnedBy(u)) <= 1

\* C2: whenever no request is in progress, each bootcamp's averageCost is
\* the average tuition of its courses and its averageRating the average
\* rating of its reviews (absent when it has none).
C2_AggregatesWhenIdle ==
  AllIdle => \A b \in DOMAIN bootcamps :
               /\ bootcamps[b].averageCost = ExpectedCost(b)
               /\ bootcamps[b].averageRating = ExpectedRating(b)

\* C3: when a deleteCourse request that ran without any other request
\* stepping in between has been answered, the averageCost of the course's
\* bootcamp is the average tuition of the bootcamp's remaining courses, and
\* absent when none remains.  (Every course of the model was created by an
\* addCourse request.)
C3_DeleteLeavesAverage ==
  (last.op = "deleteCourse" /\ last.status = 204 /\ last.solo
     /\ last.id \in DOMAIN bootcamps)
    => bootcamps[last.id].averageCost = ExpectedCost(last.id)

\* C4: once all concurrent course create and delete requests for a
\* bootcamp and their recomputations have completed, the bootcamp's
\* averageCost is the average over its current courses.  Stated for the
\* bootcamps that still have a course, where the recomputation writes a number.
C4_StaleOnlyTransient ==
  AllIdle => \A b \in DOMAIN bootcamps :
               CoursesOf(courses, b) # {} => bootcamps[b].averageCost = ExpectedCost(b)

\* C5: no addBootcamp or updateBootcamp request changes averageRating or
\* averageCost of a bootcamp: a bootcamp is created without them and an
\* update leaves both as they were.
C5_DerivedFieldsNotWritable ==
  [][last'.op \in {"addBootcamp", "updateBootcamp"} =>
       \A b \in DOMAIN bootcamps' :
          IF b \in DOMAIN bootcamps
          THEN /\ bootcamps'[b].averageCost = bootcamps[b].averageCost
               /\ bootcamps'[b].averageRating = bootcamps[b].averageRating
          ELSE /\ bootcamps'[b].averageCost = Absent
               /\ bootcamps'[b].averageRating = Absent]_vars

NoDuplicateReview ==
  \A r1, r2 \in DOMAIN reviews :
     r1 # r2 => ~(reviews[r1].bootcamp = reviews[r2].bootcamp
                    /\ reviews[r1].user = reviews[r2].user)

DuplicateAddStoresNothing ==
  \A s \in Slots :
     (/\ req[s].pc = "ar_save" /\ req'[s].pc # "ar_save"
      /\ \E r \in DOMAIN reviews : /\ reviews[r].bootcamp = req[s].id
                                   /\ reviews[r].user = req[s].user)
       => /\ reviews' = reviews
          /\ last'.op = "addReview" /\ last'.status = 409

\* C6: in every reachable state no two reviews share the same (bootcamp,
\* user) pair, under any interleaving of addReview and updateReview
\* requests; an addReview of a user who already has a review of that
\* bootcamp is rejected and stores nothing.
C6_ReviewUniquePerUser == []NoDuplicateReview /\ [][DuplicateAddStoresNothing]_vars

\* A duplicate addReview has just been rejected while the first review of
\* that pair is in the store.
C6_Witness ==
  /\ last.op = "addReview" /\ last.status = 409
  /\ \E r \in DOMAIN reviews : reviews[r].bootcamp = last.id

\* C7: when the deletion of a bootcamp B that existed has completed, B is
\* absent from the store and no course references B.
C7_DeleteCascades ==
  (last.op = "bootcampDeleted" /\ last.status = 1)
    => /\ last.id \notin DOMAIN bootcamps
       /\ CoursesOf(courses, last.id) = {}

\* C8: a resetPassword request whose token has already been used by a
\* successful resetPassword request is answered 400 (invalid or expired
\* token) and leaves the password of the user holding the token as it was.
C8_TokenSingleUse ==
  (last.op = "resetPassword" /\ last.info.reused) =>
    /\ last.status = 400
    /\ last.id \in DOMAIN users => users[last.id].password = last.info.before

\* C9: a resetPassword request whose token hashes to a stored reset hash
\* with an expiry that is not in the future is answered 400, and the step
\* that answers it changes no user document.
C9_ExpiredTokenRejected ==
  [][(last'.op = "resetPassword" /\ last'.info.stale) =>
       (last'.status = 400 /\ users' = users)]_vars

\* C9 witness: a request with an issued, stored and expired token was
\* answered 400.
C9_Witness ==
  /\ last.op = "resetPassword" /\ last.info.stale /\ last.status = 400
  /\ \E u \in DOMAIN users : users[u].resetPasswordToken = Sha256(last.token)

\* C10: when a forgotPassword request whose email send failed completes
\* (500) with no other request interleaved, the reset hash and the expiry
\* of its user are absent.
C10_RollbackClears ==
  (last.op = "forgotPassword" /\ last.status = 500 /\ last.solo
     /\ last.id \in DOMAIN users) =>
    /\ users[last.id].resetPasswordToken = NoString
    /\ users[last.id].resetPasswordExpire = Absent

\* C11: a failed login is answered the same way, in status and in body,
\* whether no user has the email or a user has it and the password does not
\* match: every failed login carries the one answer of the mismatch case.
C11_LoginFailureUniform ==
  (last.op = "login" /\ last.status # 200) =>
     (last.status = LoginMismatch.status /\ last.body = LoginMismatch.body)

\* C11 witness: a login for an email that no user has was answered while
\* an account with another email exists.
C11_Witness ==
  /\ last.op = "login" /\ ~last.info.known /\ last.status = 401
  /\ users # <<>>

\* C12: the answer to a successful register request has status 201 and
\* carries a token and a user object without a password field.
C12_RegisterHidesPassword ==
  (last.op = "register" /\ last.status = 201) =>
     /\ "token" \in DOMAIN last.body
     /\ "user" \in DOMAIN last.body
     /\ "password" \notin DOMAIN last.body.user

\* C13: after any sequence of register, updatePassword, resetPassword and
\* admin password updates, (a) the stored password of every user is one
\* hash of the password most recently set for it; (b) a login that ran
\* without a foreign step in between succeeds exactly when the password
\* entered is that password, with a token that names the user; (c) getMe
\* with a token, run without a foreign step, returns the user the token names.
C13_LoginWithLatestPassword ==
  /\ \A u \in DOMAIN users : users[u].password = Bcrypt(Plain(pwSet[u]))
  /\ (last.op = "login" /\ last.solo /\ last.info.known) =>
        /\ (last.status = 200) <=> (last.info.entered = pwSet[last.id])
        /\ last.status = 200 => last.body.token = Jwt(last.id)
  /\ (last.op = "getMe" /\ last.solo /\ last.status = 200) =>
        last.body.data._id = last.info.tok.id

\* C13 witness: a password that was changed after registration has just
\* been accepted by login.
C13_Witness ==
  /\ last.op = "login" /\ last.solo /\ last.status = 200
  /\ last.id \in DOMAIN users /\ users[last.id].role = "user"
  /\ spent # {}
  /\ last.info.entered = "pw2"

\* C14: a handler behind protect runs only for a validly signed, unexpired
\* token whose id names a user that exists, with that user on the request;
\* for no token, a bad token or the token of a deleted user the guard
\* answers 401 and the handler does not run.
C14_ProtectAdmitsOnlyLiveUsers ==
  \A s \in Slots :
    req[s].pc \in AuthRoutes \cup UsersRoutes =>
      /\ Verify(req[s].obj.tok)
      /\ req[s].obj.user # NullUser

\* The program points of the users handlers.
UsersHandlerPcs == UsersRoutes \cup {"gau_find"}

\* C15: a /users handler runs only for a request whose token named, at the
\* guard, an existing user with the role admin; every answer to a /users
\* request of any other requester is the guard's refusal (401, 403 or 500)
\* and carries no user record, and since only the handlers write, no
\* record changes for such a requester.
C15_UsersAdminOnly ==
  /\ \A s \in Slots :
       req[s].pc \in UsersHandlerPcs =>
         /\ Verify(req[s].obj.tok)
         /\ req[s].obj.user._id # 0
         /\ req[s].obj.user.role = "admin"
  /\ last.op \in UsersRoutes =>
       \/ /\ last.info.user._id # 0
          /\ last.info.user.role = "admin"
       \/ /\ last.status \in {401, 403, 500}
          /\ DOMAIN last.body = {"success", "error"}

\* C15 witness: a registered user who is not an admin has just been
\* refused on a users route, and an admin request is being served.
C15_Witness ==
  /\ last.op \in UsersRoutes /\ last.status = 403
  /\ last.info.user.role = "user"
  /\ \E s \in Slots : req[s].pc \in UsersHandlerPcs

\* The metadata the pagination rule gives for page, limit and totalCount.
ExpectedPagination(page, limit, totalCount) ==
  [next |-> IF page * limit < totalCount
            THEN {[page |-> page + 1, limit |-> limit]} ELSE {},
   prev |-> IF (page - 1) * limit > 0
            THEN {[page |-> page - 1, limit |-> limit]} ELSE {}]

\* The number of records of the collection that match the filter the query
\* stands for: all of them when the query names no field to filter on.
MatchCount(o) ==
  IF DOMAIN o.query \ removeFields = {} THEN o.matching + o.others ELSE o.matching

\* C16: for every list operation (bootcamps, courses, reviews, users) and
\* every page, limit and totalCount, the returned metadata has
\* next = {page+1, limit} exactly when page*limit < totalCount and
\* prev = {page-1, limit} exactly when skip > 0, totalCount being the number
\* of records that match the filter.
C16_PaginationMetadata ==
  last.op = "list" =>
    LET p == PaginationObj(last.info.query)
    IN last.body.pagination = ExpectedPagination(p.page, p.limit, MatchCount(last.info))

\* C16 holds for the three list operations that read the query.
C16_ExceptUsers ==
  (last.op = "list" /\ last.info.kind # "users") => C16_PaginationMetadata

\* C17: page defaults to 1 and limit to 25, skip is (page-1)*limit, and a
\* requested limit of 0 means unlimited: every matching record is returned.
C17_LimitZeroUnlimited ==
  (last.op = "list" /\ last.info.kind = "bootcamps") =>
    LET q == last.info.query
        p == last.info.pagination
    IN /\ "page" \notin DOMAIN q => p.page = 1
       /\ "limit" \notin DOMAIN q => p.limit = 25
       /\ p.skip = (p.page - 1) * p.limit
       /\ ("limit" \in DOMAIN q /\ q["limit"].val = <<"0">>) =>
             last.body.count = MatchCount(last.info)

\* C17 without its last part: the defaults and skip.
C17_DefaultsAndSkip ==
  (last.op = "list" /\ last.info.kind = "bootcamps") =>
    LET q == last.info.query
        p == last.info.pagination
    IN /\ "page" \notin DOMAIN q => p.page = 1
       /\ "limit" \notin DOMAIN q => p.limit = 25
       /\ p.skip = (p.page - 1) * p.limit

\* C18: select, sort, page and limit never appear in the filter passed to
\* the store, every other parameter does, as an equality on the value given,
\* and field[op]=v with op among gt, gte, lt, lte, in is the comparison op
\* on field with the value given.
C18_FilterTranslation ==
  (last.op = "list" /\ last.info.kind \in {"bootcamps", "courses"}) =>
    LET q == last.info.query
        filter == last.info.filter
    IN /\ \A f \in filter : f.field \notin removeFields
       /\ \A n \in DOMAIN q \ removeFields :
            \E f \in filter :
              /\ f.field = n
              /\ f.val = q[n].val
              /\ f.op = (IF q[n].op \in Operators THEN Dollar(q[n].op) ELSE "")

\* C18 for the queries none of whose values holds an operator word.
C18_WhenValuesHoldNoOperator ==
  (/\ last.op = "list" /\ last.info.kind \in {"bootcamps", "courses"}
   /\ \A n \in DOMAIN last.info.query :
        \A i \in 1..Len(last.info.query[n].val) :
          last.info.query[n].val[i] \notin Operators)
    => C18_FilterTranslation

\* C19: a create request whose body fails DTO validation (POST /bootcamps
\* with a career outside the allowed set) is answered with status 400 and
\* a message naming the invalid value, and writes no record.
C19_ValidationAnswers400 ==
  (last.op = "addBootcamp" /\ "body" \in DOMAIN last) =>
    /\ last.status = 400
    /\ last.body.error[2] = last.info.career
    /\ (last.solo => bootcamps = last.info.before)

\* C19 without the status: the message names the value and nothing is written.
C19_NamesValueWritesNothing ==
  (last.op = "addBootcamp" /\ "body" \in DOMAIN last) =>
    /\ last.body.error[2] = last.info.career
    /\ (last.solo => bootcamps = last.info.before)

\* C20: a get, update or delete by id, for every entity type, given a
\* well-formed id that matches no stored record, is answered with 404 and
\* leaves the store unchanged.  Here: DELETE /bootcamps/:id.
C20_DeleteUnknownIs404 ==
  (last.op = "deleteBootcamp" /\ last.id \notin DOMAIN bootcamps) =>
    last.status = 404

\* The same for DELETE /users/:id.
C20_DeleteUnknownUserIs404 ==
  (last.op = "deleteUser" /\ "found" \in DOMAIN last.body /\ ~last.body.found)
    => last.status = 404

\* Get and update of a user by an id that matches nothing are answered 404.
C20_GetUpdateUnknownUserIs404 ==
  (/\ last.op \in {"getUserById", "updateUser"} /\ last.status \notin {401, 403, 500}
   /\ last.solo /\ last.id \notin DOMAIN users)
    => last.status = 404

\* C21: an updateReview request from an authenticated requester who is
\* neither the author of the review nor an admin is rejected with status
\* 401 or 403 and leaves the review unchanged.
C21_UpdateReviewRejects401Or403 ==
  (/\ last.op = "updateReview" /\ "user" \in DOMAIN last
   /\ last.id \in DOMAIN reviews
   /\ reviews[last.id].user # last.user /\ Role(last.user) # "admin")
    => last.status \in {401, 403}

\* C21 without the status: such a request is refused.
C21_UpdateReviewRefused ==
  (/\ last.op = "updateReview" /\ "user" \in DOMAIN last
   /\ last.id \in DOMAIN reviews
   /\ reviews[last.id].user # last.user /\ Role(last.user) # "admin")
    => last.status >= 400

\* C22: DTO validation accepts a create body exactly when the schema
\* constraints accept the same values: no body accepted by the DTO is
\* rejected by the schema, nor the reverse.
C22_DtoMirrorsSchema ==
  last.op = "validate" =>
    (DtoAccepts(last.info.body) <=> SchemaAccepts(last.info.body))

\* One direction of C22: what the DTO accepts and builds, the schema accepts.
C22_DtoImpliesSchema ==
  (last.op = "validate" /\ "dto" \in DOMAIN last.info) => last.status = 201

\* C23: in every reachable state each bootcamp's slug equals the slug
\* derived from its current name, after any sequence of bootcamp create
\* and update operations, an update of the name included.
C23_SlugFollowsName ==
  \A b \in DOMAIN bootcamps : bootcamps[b].slug = slugify(bootcamps[b].name)

\* C24: the pagination metadata of a list is consistent with the records
\* that match the filter, also when a create or delete of a matching
\* record comes between the count and the fetch: next is present only if a
\* matching record exists beyond the returned page.
C24_NextOnlyIfMoreRecords ==
  (last.op = "getCourses" /\ last.body.pagination.next # {}) =>
    Cardinality(DOMAIN courses) > last.info.page * last.info.limit

\* C24 for a list request with no foreign step between its two queries.
C24_WhenNotInterleaved ==
  (last.op = "getCourses" /\ last.solo) =>
    (last.body.pagination.next # {}
       <=> Cardinality(DOMAIN courses) > last.info.page * last.info.limit)

\* C25: a failure during the recomputation of averageCost (in the
\* aggregation or in the parent update) after a course write never makes
\* the triggering create or delete request fail: the request reports success.
C25_RecomputeFailureIsSwallowed ==
  "failed" \in DOMAIN last => last.status \in {201, 204}

\* C25 for a failure of the parent update alone.
C25_UpdateFailureIsSwallowed ==
  ("failed" \in DOMAIN last /\ last.failed = "update") => last.status \in {201, 204}

\* C26: updateBootcamp applies the update when the authenticated requester
\* is the owner of the bootcamp or has the admin role: the owner is not
\* answered 401.
C26_OwnerMayUpdate ==
  (/\ last.op = "updateBootcamp" /\ "user" \in DOMAIN last
   /\ last.id \in DOMAIN bootcamps
   /\ bootcamps[last.id].user = last.user)
    => last.status # 401

\* C26 for the other requesters: whoever is refused with 401 is not an admin.
C26_AdminMayUpdate ==
  (last.op = "updateBootcamp" /\ "user" \in DOMAIN last) => Role(last.user) # "admin"

\* C27: of two concurrent resetPassword requests that carry the same valid
\* reset token (both looked the token up before either had succeeded), at
\* most one sets a password: never has one of them answered 200 while the
\* other has saved its password too.
C27_ConcurrentResetOnlyOne ==
  \A s \in Slots :
    ~(/\ last.op = "resetPassword" /\ last.status = 200 /\ ~last.info.reused
      /\ req[s].pc = "rp_clear" /\ ~req[s].obj.reused
      /\ req[s].val = last.token)

\* C28: in every reachable state every course refers to a bootcamp that
\* exists, also when an addCourse request for bootcamp B, which checks
\* that B exists and then creates the course, interleaves with a delete of B.
C28_NoOrphanCourse ==
  \A c \in DOMAIN courses : courses[c].bootcamp \in DOMAIN bootcamps

\* The same for reviews.
C28_NoOrphanReview ==
  \A r \in DOMAIN reviews : reviews[r].bootcamp \in DOMAIN bootcamps

\* C29: a course is updated only when the requester is the owner of its
\* bootcamp or an admin; an update request from any other user leaves the
\* courses unchanged.
C29_OnlyOwnerOrAdminWrites ==
  (/\ last.op = "updateCourse" /\ "user" \in DOMAIN last
   /\ last.id \in DOMAIN last.before
   /\ last.before[last.id].bootcamp \in DOMAIN bootcamps
   /\ bootcamps[last.before[last.id].bootcamp].user # last.user
   /\ Role(last.user) # "admin")
    => courses = last.before

\* C30: a query parameter given without an operator becomes an equality
\* filter on exactly the submitted field name and value: the operator
\* rewrite never alters a field name or a value, for example a value that
\* is or contains the word in, lt or gt.
C30_PlainParameterKeptAsGiven ==
  (last.op = "list" /\ last.info.kind \in {"bootcamps", "reviews"}) =>
    \A n \in DOMAIN last.info.query \ removeFields :
      last.info.query[n].op = "" =>
        [field |-> n, op |-> "", val |-> last.info.query[n].val] \in last.info.filter

\* The other half of the rewrite: the marker of field[op]=v gets its "$".
C30_OperatorMarkersRewritten ==
  (last.op = "list" /\ last.info.kind \in {"bootcamps", "reviews"}) =>
    \A n \in DOMAIN last.info.query \ removeFields :
      last.info.query[n].op \in Operators =>
        \E f \in last.info.filter :
          f.field = n /\ f.op = Dollar(last.info.query[n].op)

====
